---- MODULE Spec2Model ----
(***************************************************************************)
(* Model of llama_cpp/server/__main__.py: the type resolver                *)
(* (get_base_type, contains_list_type), the boolean coercer                *)
(* (parse_bool_arg) and the start-up script that compiles the Settings     *)
(* schema and the uvicorn.run parameters into argparse arguments, parses   *)
(* the command line, partitions the result and starts the server.          *)
(***************************************************************************)
EXTENDS Integers, Sequences, FiniteSets, TLC

VARIABLES
    \* ---- type resolver harness ----
    tpc,        \* which of the two resolver functions have been applied
    ann,        \* the annotation handed to the resolver
    base,       \* result of get_base_type(ann)
    islist,     \* result of contains_list_type(ann)
    calls,      \* positions of ann on which contains_list_type was called
    \* ---- boolean coercer harness ----
    barg,       \* the argument handed to parse_bool_arg
    bword,      \* the lower-case, unpadded word barg was written from
    bres,       \* outcome of parse_bool_arg(barg)
    \* ---- the start-up script ----
    pc,           \* position in the script
    schema,       \* Settings.model_fields, in declaration order
    params,       \* the parameters of uvicorn.run, in declaration order
    idx,          \* index of the declaration the current loop is at
    parser,       \* the arguments registered with the ArgumentParser
    argv,         \* the command line: flags, each with the tokens after it
    args,         \* vars(args), the parsed namespace
    overrides,    \* the keyword arguments given to Settings
    uvicorn_args, \* the keyword arguments for uvicorn.run
    partitioned,  \* uvicorn_args as first computed, before host and port are set
    env_host,     \* os.environ HOST as read, VNone when unset
    env_port,     \* os.environ PORT as read, VNone when unset
    validated,    \* whether Settings accepted its keyword arguments
    started,      \* number of calls of uvicorn.run
    error         \* the exception that ended the run, "none" if none

tvars == <<tpc, ann, base, islist, calls>>
bvars == <<barg, bword, bres>>
mvars == <<pc, schema, params, idx, parser, argv, args, overrides, uvicorn_args,
           partitioned, env_host, env_port, validated, started, error>>
vars == <<tpc, ann, base, islist, calls, barg, bword, bres,
          pc, schema, params, idx, parser, argv, args, overrides, uvicorn_args,
          partitioned, env_host, env_port, validated, started, error>>

(***************************************************************************)
(* Bounds                                                                  *)
(***************************************************************************)
MaxDepth == 3      \* nesting depth of the annotations that are enumerated
MaxPad   == 1      \* length of the whitespace put around a boolean word
MaxFields == 2     \* number of fields of the Settings schema
MaxArgs  == 2      \* number of flags on the command line

(***************************************************************************)
(* Python objects that can occur in an annotation.  Every object is a      *)
(* record [kind, name, args]:                                              *)
(*   plain   : a class (int, str, bool, NoneType, ...), no __origin__      *)
(*   value   : an instance; name is the name of its class                  *)
(*   list    : List[args[1]],     __origin__ is list                       *)
(*   union   : Union[args],       __origin__ is Union                      *)
(*   literal : Literal[args],     __origin__ is Literal                    *)
(***************************************************************************)
Plain(n)      == [kind |-> "plain",   name |-> n,         args |-> <<>>]
Val(n)        == [kind |-> "value",   name |-> n,         args |-> <<>>]
ListOf(x)     == [kind |-> "list",    name |-> "list",    args |-> <<x>>]
UnionOf(xs)   == [kind |-> "union",   name |-> "Union",   args |-> xs]
LiteralOf(xs) == [kind |-> "literal", name |-> "Literal", args |-> xs]

int      == Plain("int")
str      == Plain("str")
bool     == Plain("bool")
NoneType == Plain("NoneType")
None     == Val("NoneType")

\* type(x)
TypeOf(x) ==
    IF x.kind = "value" THEN Plain(x.name)
    ELSE IF x.kind = "plain" THEN Plain("type")
    ELSE Plain("GenericAlias")

\* getattr(annotation, '__origin__', None)
Origin(annotation) ==
    IF annotation.kind \in {"list", "union", "literal"} THEN annotation.name ELSE "None"

\* [arg for arg in annotation.__args__ if arg is not type(None)]
non_optional_args(annotation) == SelectSeq(annotation.args, LAMBDA arg : arg # NoneType)

RECURSIVE get_base_type(_)
get_base_type(annotation) ==
    IF Origin(annotation) = "Literal" THEN TypeOf(annotation.args[1])
    ELSE IF Origin(annotation) = "Union" THEN
        IF non_optional_args(annotation) # <<>>
        THEN get_base_type(non_optional_args(annotation)[1])
        ELSE None                        \* falls off the end of the function
    ELSE IF Origin(annotation) = "list" THEN get_base_type(annotation.args[1])
    ELSE annotation

\* contains_list_type with the positions it is called on: path is the
\* position of annotation inside the outermost annotation, res the returned
\* value, calls the positions visited in call order.  any() stops at the
\* first argument that yields True.
RECURSIVE contains_list_mut(_, _)
RECURSIVE any_contains_mut(_, _, _)
any_contains_mut(xs, i, path) ==
    IF i > Len(xs) THEN [res |-> FALSE, calls |-> <<>>]
    ELSE LET r == contains_list_mut(xs[i], Append(path, i)) IN
         IF r.res THEN r
         ELSE LET rest == any_contains_mut(xs, i + 1, path) IN
              [res |-> rest.res, calls |-> r.calls \o rest.calls]

\* variant that looks through sequence wrappers instead of stopping at them
contains_list_mut(annotation, path) ==
    IF Origin(annotation) \in {"Literal", "Union", "list"} THEN
        LET a == any_contains_mut(annotation.args, 1, path) IN
        [res |-> a.res \/ Origin(annotation) = "list", calls |-> <<path>> \o a.calls]
    ELSE [res |-> FALSE, calls |-> <<path>>]

RECURSIVE contains_list_calls(_, _)
RECURSIVE any_contains(_, _, _)
any_contains(xs, i, path) ==
    IF i > Len(xs) THEN [res |-> FALSE, calls |-> <<>>]
    ELSE LET r == contains_list_calls(xs[i], Append(path, i)) IN
         IF r.res THEN r
         ELSE LET rest == any_contains(xs, i + 1, path) IN
              [res |-> rest.res, calls |-> r.calls \o rest.calls]

contains_list_calls(annotation, path) ==
    IF Origin(annotation) = "list" THEN [res |-> TRUE, calls |-> <<path>>]
    ELSE IF Origin(annotation) \in {"Literal", "Union"} THEN
        LET a == any_contains(annotation.args, 1, path) IN
        [res |-> a.res, calls |-> <<path>> \o a.calls]
    ELSE [res |-> FALSE, calls |-> <<path>>]

contains_list_type(annotation) == contains_list_calls(annotation, <<>>).res

(***************************************************************************)
(* The annotations the resolver is applied to.                             *)
(***************************************************************************)
TypeLeaves == {int, bool, NoneType}
LitValues  == {Val("str"), Val("bool")}
Siblings   == {NoneType, int, ListOf(int)}
ValueLiterals ==
    {LiteralOf(<<v>>) : v \in LitValues} \cup {LiteralOf(<<v, w>>) : v, w \in LitValues}

RECURSIVE TypeExprs(_)
TypeExprs(d) ==
    IF d = 0 THEN TypeLeaves
    ELSE LET T == TypeExprs(d - 1) IN
         T \cup ValueLiterals
           \cup {ListOf(x) : x \in T}
           \cup {UnionOf(<<x>>) : x \in T}
           \cup {UnionOf(<<x, s>>) : x \in T, s \in Siblings}
           \cup {UnionOf(<<s, x>>) : x \in T, s \in Siblings}
           \cup {LiteralOf(<<x>>) : x \in T}
           \cup {LiteralOf(<<v, x>>) : v \in LitValues, x \in T}


Unset == Val("unset")

TypesIdle ==
    /\ ann = None
    /\ tpc = {}
    /\ base = Unset
    /\ islist = FALSE
    /\ calls = <<>>

(***************************************************************************)
(* Text and bytes.  A str is a sequence of one-character strings, a bytes  *)
(* object a sequence of byte values.                                       *)
(***************************************************************************)
LowerOf ==
    ("A" :> "a") @@ ("B" :> "b") @@ ("E" :> "e") @@ ("F" :> "f") @@
    ("L" :> "l") @@ ("M" :> "m") @@ ("N" :> "n") @@ ("O" :> "o") @@
    ("R" :> "r") @@ ("S" :> "s") @@ ("T" :> "t") @@ ("U" :> "u") @@
    ("Y" :> "y")

OrdOf ==
    ("a" :> 97)  @@ ("b" :> 98)  @@ ("e" :> 101) @@ ("f" :> 102) @@
    ("l" :> 108) @@ ("m" :> 109) @@ ("n" :> 110) @@ ("o" :> 111) @@
    ("r" :> 114) @@ ("s" :> 115) @@ ("t" :> 116) @@ ("u" :> 117) @@
    ("y" :> 121) @@ ("0" :> 48)  @@ ("1" :> 49)  @@ ("2" :> 50)  @@
    (" " :> 32)  @@ ("\t" :> 9)

Whitespace == {" ", "\t"}
Alphabet   == DOMAIN OrdOf \cup DOMAIN LowerOf

Ord(c) == IF c \in DOMAIN LowerOf THEN OrdOf[LowerOf[c]] - 32 ELSE OrdOf[c]
Chr(b) == CHOOSE c \in Alphabet : Ord(c) = b

\* bytes that occur in no UTF-8 encoding
InvalidBytes == {255}

PyStr(s)   == [t |-> "str",   v |-> s]
PyBytes(b) == [t |-> "bytes", v |-> b]

\* str.lower()
py_lower(s) == [i \in DOMAIN s |-> IF s[i] \in DOMAIN LowerOf THEN LowerOf[s[i]] ELSE s[i]]

\* str.strip()
RECURSIVE py_lstrip(_)
py_lstrip(s) == IF s # <<>> /\ Head(s) \in Whitespace THEN py_lstrip(Tail(s)) ELSE s
RECURSIVE py_rstrip(_)
py_rstrip(s) ==
    IF s # <<>> /\ s[Len(s)] \in Whitespace THEN py_rstrip(SubSeq(s, 1, Len(s) - 1)) ELSE s
py_strip(s) == py_rstrip(py_lstrip(s))

\* bytes.decode('utf-8') on bytes that are ASCII or in InvalidBytes
CanDecode(b) == \A i \in DOMAIN b : b[i] \notin InvalidBytes
py_decode(b) == [i \in DOMAIN b |-> Chr(b[i])]
py_encode(s) == [i \in DOMAIN s |-> Ord(s[i])]

true_values ==
    {<<"1">>, <<"o", "n">>, <<"t">>, <<"t", "r", "u", "e">>, <<"y">>, <<"y", "e", "s">>}
false_values ==
    {<<"0">>, <<"o", "f", "f">>, <<"f">>, <<"f", "a", "l", "s", "e">>, <<"n">>, <<"n", "o">>}

Return(b)     == [kind |-> "return", exc |-> "",  value |-> b,     carried |-> <<>>]
Raise(e, txt) == [kind |-> "raise",  exc |-> e,   value |-> FALSE, carried |-> txt]
NotCalled     == [kind |-> "none",   exc |-> "",  value |-> FALSE, carried |-> <<>>]

\* variant that forgets to strip the surrounding whitespace
parse_bool_arg_nostrip(arg) ==
    IF arg.t = "bytes" /\ ~CanDecode(arg.v) THEN Raise("UnicodeDecodeError", <<>>)
    ELSE LET text    == IF arg.t = "bytes" THEN py_decode(arg.v) ELSE arg.v
             arg_str == py_lower(text)
         IN  IF arg_str \in true_values THEN Return(TRUE)
             ELSE IF arg_str \in false_values THEN Return(FALSE)
             ELSE Raise("ValueError", text)

parse_bool_arg(arg) ==
    IF arg.t = "bytes" /\ ~CanDecode(arg.v) THEN Raise("UnicodeDecodeError", <<>>)
    ELSE LET text    == IF arg.t = "bytes" THEN py_decode(arg.v) ELSE arg.v
             arg_str == py_strip(py_lower(text))
         IN  IF arg_str \in true_values THEN Return(TRUE)
             ELSE IF arg_str \in false_values THEN Return(FALSE)
             ELSE Raise("ValueError", text)

(***************************************************************************)
(* Python values held by the namespace and the keyword mappings.           *)
(***************************************************************************)
VNone    == [t |-> "NoneType", s |-> <<>>, n |-> 0, l |-> <<>>]
VEmpty   == [t |-> "_empty",   s |-> <<>>, n |-> 0, l |-> <<>>]  \* inspect.Parameter.empty
VStr(x)  == [t |-> "str",      s |-> x,    n |-> 0, l |-> <<>>]
VInt(x)  == [t |-> "int",      s |-> <<>>, n |-> x, l |-> <<>>]
VBool(x) == [t |-> "bool",     s |-> <<>>, n |-> IF x THEN 1 ELSE 0, l |-> <<>>]
VList(x) == [t |-> "list",     s |-> <<>>, n |-> 0, l |-> x]

Ok(v)    == [ok |-> TRUE,  val |-> v]
Fail     == [ok |-> FALSE, val |-> VNone]

DigitOf ==
    ("0" :> 0) @@ ("1" :> 1) @@ ("2" :> 2) @@ ("3" :> 3) @@ ("4" :> 4) @@
    ("5" :> 5) @@ ("6" :> 6) @@ ("7" :> 7) @@ ("8" :> 8) @@ ("9" :> 9)

RECURSIVE digits_value(_)
digits_value(s) ==
    IF s = <<>> THEN 0 ELSE 10 * digits_value(SubSeq(s, 1, Len(s) - 1)) + DigitOf[s[Len(s)]]

\* int(text): surrounding whitespace is allowed, then decimal digits only
int_of_text(s) ==
    LET body == py_strip(s) IN
    IF body # <<>> /\ \A i \in DOMAIN body : body[i] \in DOMAIN DigitOf
    THEN Ok(VInt(digits_value(body))) ELSE Fail

\* int(x)
py_int(x) ==
    CASE x.t = "str"  -> int_of_text(x.s)
      [] x.t = "int"  -> Ok(x)
      [] x.t = "bool" -> Ok(VInt(x.n))
      [] OTHER        -> Fail

RECURSIVE nat_text(_)
nat_text(n) ==
    IF n < 10 THEN <<CHOOSE c \in DOMAIN DigitOf : DigitOf[c] = n>>
    ELSE Append(nat_text(n \div 10), CHOOSE c \in DOMAIN DigitOf : DigitOf[c] = n % 10)

\* str(x) as f-strings format it
py_str(x) ==
    CASE x.t = "str"  -> x.s
      [] x.t = "int"  -> nat_text(x.n)
      [] x.t = "bool" -> IF x.n = 1 THEN <<"T", "r", "u", "e">> ELSE <<"F", "a", "l", "s", "e">>
      [] OTHER        -> <<"N", "o", "n", "e">>

\* repr(x)
py_repr(x) == IF x.t = "str" THEN <<"'">> \o x.s \o <<"'">> ELSE py_str(x)

\* text.replace('%', '%%')
RECURSIVE escape_percent(_)
escape_percent(s) ==
    IF s = <<>> THEN <<>>
    ELSE (IF Head(s) = "%" THEN <<"%", "%">> ELSE <<Head(s)>>) \o escape_percent(Tail(s))

\* str.startswith and slicing from a position
StartsWith(k, p) == Len(k) >= Len(p) /\ SubSeq(k, 1, Len(p)) = p
SliceFrom(k, n)  == SubSeq(k, n + 1, Len(k))

(***************************************************************************)
(* Declarations read from the collaborators.                               *)
(***************************************************************************)
FieldInfo(n, a, d, desc) == [name |-> n, annotation |-> a, default |-> d, description |-> desc]
Param(n, a, d)           == [name |-> n, annotation |-> a, default |-> d]

Empty == Plain("_empty")

FieldDecls ==
    { FieldInfo(<<"r", "a", "w">>, None, VNone, VNone),
      FieldInfo(<<"t", "a", "g", "s">>, UnionOf(<<ListOf(str), NoneType>>), VNone, VStr(<<"t", "a", "g">>)),
      FieldInfo(<<"u", "v", "i", "c", "o", "r", "n", "_", "p", "o", "r", "t">>, int, VInt(1), VNone),
      FieldInfo(<<"f", "l", "a", "g", "s">>, ListOf(bool), VBool(TRUE), VStr(<<"l", "o", "g">>)) }

RECURSIVE Schemas(_)
Schemas(n) ==
    IF n = 0 THEN {<<>>}
    ELSE LET S == Schemas(n - 1) IN
         S \cup {Append(s, f) : s \in S, f \in FieldDecls}

DistinctNames(s) == \A i, j \in DOMAIN s : i # j => s[i].name # s[j].name

\* uvicorn.run(app, host, port) with its defaults, and a launcher whose
\* host and port carry neither annotation nor default
ParamLists ==
    { << Param(<<"a", "p", "p">>, Empty, VEmpty),
         Param(<<"h", "o", "s", "t">>, str, VStr(<<"1", "2", "7", ".", "0", ".", "0", ".", "1">>)),
         Param(<<"p", "o", "r", "t">>, int, VInt(8000)) >>,
      << Param(<<"a", "p", "p">>, Empty, VEmpty),
         Param(<<"h", "o", "s", "t">>, Empty, VEmpty),
         Param(<<"p", "o", "r", "t">>, Empty, VEmpty) >> }

(***************************************************************************)
(* argparse                                                                *)
(***************************************************************************)
ParseBoolFn == [kind |-> "function", name |-> "parse_bool_arg", args |-> <<>>]

Action(o, d, na, ty, df, h) ==
    [option |-> o, dest |-> d, nargs |-> na, type |-> ty, default |-> df, help |-> h]

\* the dest argparse derives from a long option: leading dashes removed,
\* the remaining dashes turned into underscores
DestOf(option) ==
    LET body == SliceFrom(option, 2) IN
    [i \in DOMAIN body |-> IF body[i] = "-" THEN "_" ELSE body[i]]

\* the type callable applied to one command-line token
ApplyType(ty, tok) ==
    CASE ty = None \/ ty = str -> Ok(VStr(tok))
      [] ty = int              -> int_of_text(tok)
      [] ty = bool             -> Ok(VBool(tok # <<>>))
      [] ty = ParseBoolFn      ->
            LET r == parse_bool_arg(PyStr(tok)) IN
            IF r.kind = "return" THEN Ok(VBool(r.value)) ELSE Fail
      [] OTHER                 -> Fail

RECURSIVE ConvertAll(_, _)
ConvertAll(ty, toks) ==
    IF toks = <<>> THEN Ok(VList(<<>>))
    ELSE LET h == ApplyType(ty, Head(toks))
             r == ConvertAll(ty, Tail(toks))
         IN  IF h.ok /\ r.ok THEN Ok(VList(<<h.val>> \o r.val.l)) ELSE Fail

Dests(prs) == {prs[i].dest : i \in DOMAIN prs}

\* the namespace before any flag is read: the first action registered for
\* a dest gives its default
Defaults(prs) ==
    [d \in Dests(prs) |->
        prs[CHOOSE i \in DOMAIN prs :
                /\ prs[i].dest = d
                /\ \A j \in 1 .. i - 1 : prs[j].dest # d].default]

\* one flag with the tokens that follow it
ParseGroup(prs, ns, g) ==
    IF \A i \in DOMAIN prs : prs[i].option # g.flag THEN [ok |-> FALSE, ns |-> ns]
    ELSE LET a == prs[CHOOSE i \in DOMAIN prs : prs[i].option = g.flag]
             v == IF a.nargs = "*" THEN ConvertAll(a.type, g.toks)
                  ELSE IF Len(g.toks) = 1 THEN ApplyType(a.type, g.toks[1])
                  ELSE Fail
         IN  IF v.ok THEN [ok |-> TRUE, ns |-> [ns EXCEPT ![a.dest] = v.val]]
             ELSE [ok |-> FALSE, ns |-> ns]

RECURSIVE ParseGroups(_, _, _)
ParseGroups(prs, ns, gs) ==
    IF gs = <<>> THEN [ok |-> TRUE, ns |-> ns]
    ELSE LET r == ParseGroup(prs, ns, Head(gs)) IN
         IF r.ok THEN ParseGroups(prs, r.ns, Tail(gs)) ELSE r

\* parser.parse_args(): defaults first, then the flags in command-line
\* order; any flag that cannot be read ends the parse with an error
parse_args(prs, gs) == ParseGroups(prs, Defaults(prs), gs)

(***************************************************************************)
(* The start-up script                                                     *)
(***************************************************************************)
Dashes        == <<"-", "-">>
UvicornFlag   == <<"-", "-", "u", "v", "i", "c", "o", "r", "n", "-">>
UvicornPrefix == <<"u", "v", "i", "c", "o", "r", "n", "_">>
PrefixLen     == 8
DefaultHost   == VStr(<<"1", "2", "7", ".", "0", ".", "0", ".", "1">>)
DefaultPort   == VInt(8000)
HostKey       == <<"h", "o", "s", "t">>
PortKey       == <<"p", "o", "r", "t">>

\* description with the default appended
Description(field) ==
    IF field.default # VNone /\ field.description # VNone
    THEN VStr(field.description.s \o <<" ", "(", "d", "e", "f", "a", "u", "l", "t", ":", " ">> \o py_str(field.default) \o <<")">>)
    ELSE field.description

base_type_of(field) ==
    IF field.annotation # None THEN get_base_type(field.annotation) ELSE str

\* variant that hands the field's own default to the parser
SettingsArgument_default(field) ==
    IF base_type_of(field) # bool
    THEN Action(Dashes \o field.name, field.name,
                IF contains_list_type(field.annotation) THEN "*" ELSE "None",
                base_type_of(field), field.default, Description(field))
    ELSE Action(Dashes \o field.name, field.name, "None",
                ParseBoolFn, field.default, VStr(py_str(Description(field))))

\* variant that lets a sequence of booleans take any number of tokens
SettingsArgument_boollist(field) ==
    IF base_type_of(field) # bool
    THEN Action(Dashes \o field.name, field.name,
                IF contains_list_type(field.annotation) THEN "*" ELSE "None",
                base_type_of(field), VNone, Description(field))
    ELSE Action(Dashes \o field.name, field.name,
                IF contains_list_type(field.annotation) THEN "*" ELSE "None",
                ParseBoolFn, VNone, VStr(py_str(Description(field))))

\* the argument registered for one Settings field
SettingsArgument(field) ==
    IF base_type_of(field) # bool
    THEN Action(Dashes \o field.name, field.name,
                IF contains_list_type(field.annotation) THEN "*" ELSE "None",
                base_type_of(field), VNone, Description(field))
    ELSE Action(Dashes \o field.name, field.name, "None",
                ParseBoolFn, VNone, VStr(py_str(Description(field))))

\* the argument registered for one uvicorn.run parameter
UvicornArgument(param) ==
    LET param_type    == IF param.annotation # Empty THEN param.annotation ELSE str
        param_default == IF param.default # VEmpty THEN param.default ELSE VNone
    IN  Action(UvicornFlag \o param.name, DestOf(UvicornFlag \o param.name), "None",
               param_type, param_default,
               VStr(<<"U", "v", "i", "c", "o", "r", "n", " ", "s", "e", "t", "t", "i", "n", "g", " ", "f", "o", "r", " ">> \o param.name \o <<" ", "(", "d", "e", "f", "a", "u", "l", "t", ":", " ">>
                    \o escape_percent(py_repr(param_default)) \o <<")">>))

\* add_argument refuses an option string that is already registered
Conflicts(prs, a) == \E i \in DOMAIN prs : prs[i].option = a.option

Restrict(f, D) == [k \in D |-> f[k]]

\* {k: v for k, v in vars(args).items()
\*     if v is not None and not k.startswith("uvicorn_")}
SettingsKwargs(ns) ==
    Restrict(ns, {k \in DOMAIN ns : ns[k] # VNone /\ ~StartsWith(k, UvicornPrefix)})

\* variant that cuts one character too few
UvicornArgs_slice7(ns) ==
    LET keep == {k \in DOMAIN ns : StartsWith(k, UvicornPrefix) /\ ns[k] # VNone} IN
    [j \in {SliceFrom(k, PrefixLen - 1) : k \in keep} |->
        ns[CHOOSE k \in keep : SliceFrom(k, PrefixLen - 1) = j]]

\* variant that keeps the keys whose value is None
UvicornArgs_keepnone(ns) ==
    LET keep == {k \in DOMAIN ns : StartsWith(k, UvicornPrefix)} IN
    [j \in {SliceFrom(k, PrefixLen) : k \in keep} |->
        ns[CHOOSE k \in keep : SliceFrom(k, PrefixLen) = j]]

\* {k[8:]: v for k, v in vars(args).items()
\*     if k.startswith("uvicorn_") and v is not None}
UvicornArgs(ns) ==
    LET keep == {k \in DOMAIN ns : StartsWith(k, UvicornPrefix) /\ ns[k] # VNone} IN
    [j \in {SliceFrom(k, PrefixLen) : k \in keep} |->
        ns[CHOOSE k \in keep : SliceFrom(k, PrefixLen) = j]]

\* dict.get(key, default) and os.getenv(key, default)
Get(d, k, default) == IF k \in DOMAIN d THEN d[k] ELSE default
GetEnv(v, default)  == IF v # VNone THEN v ELSE default

merged_host(env, uv) == GetEnv(env, Get(uv, HostKey, DefaultHost))
\* variant that prefers the command line to the environment
merged_port_flagfirst(env, uv) == py_int(Get(uv, PortKey, GetEnv(env, DefaultPort)))
\* variant that falls back to the default when the coercion fails
merged_port_swallow(env, uv) ==
    IF py_int(GetEnv(env, Get(uv, PortKey, DefaultPort))).ok
    THEN py_int(GetEnv(env, Get(uv, PortKey, DefaultPort)))
    ELSE Ok(DefaultPort)
merged_port(env, uv) == py_int(GetEnv(env, Get(uv, PortKey, DefaultPort)))

Put(d, k, v) == [x \in DOMAIN d \cup {k} |-> IF x = k THEN v ELSE d[x]]

NoMap == [k \in {} |-> VNone]

(***************************************************************************)
(* Inputs of one run                                                       *)
(***************************************************************************)
Tokens  == {<<"1">>, <<"x">>}
TokSeqs == {<<>>} \cup {<<t>> : t \in Tokens}
UnknownFlag == <<"-", "-", "z", "z">>

Groups(prs) ==
    {[flag |-> prs[i].option, toks |-> ts] : i \in DOMAIN prs, ts \in TokSeqs}
    \cup {[flag |-> UnknownFlag, toks |-> <<>>]}

RECURSIVE Argvs(_, _)
Argvs(prs, n) ==
    IF n = 0 THEN {<<>>}
    ELSE LET A == Argvs(prs, n - 1) IN
         A \cup {Append(a, g) : a \in A, g \in Groups(prs)}

HostEnv == {VNone, VStr(<<"h">>)}
PortEnv == {VNone, VStr(<<"9", "0", "9", "0">>), VStr(<<"x">>)}

MainIdle ==
    /\ pc = "idle"
    /\ schema = <<>>
    /\ params = <<>>
    /\ idx = 1
    /\ parser = <<>>
    /\ argv = <<>>
    /\ args = NoMap
    /\ overrides = NoMap
    /\ uvicorn_args = NoMap
    /\ partitioned = NoMap
    /\ env_host = VNone
    /\ env_port = VNone
    /\ validated = TRUE
    /\ started = 0
    /\ error = "none"

(***************************************************************************)
(* Boolean coercer harness.  An input is a lower-case word, written in any *)
(* mix of cases, with whitespace around it, as str or encoded as bytes,    *)
(* the bytes possibly damaged by an invalid byte.                          *)
(***************************************************************************)
OtherWords ==
    {<<>>, <<"2">>, <<"t", "r">>, <<"y", "e", "s", "s">>, <<"o", " ", "n">>,
     <<"m", "a", "y", "b", "e">>}
Words == true_values \cup false_values \cup OtherWords

UpperOf(c) == IF \E u \in DOMAIN LowerOf : LowerOf[u] = c
              THEN CHOOSE u \in DOMAIN LowerOf : LowerOf[u] = c ELSE c
Casings(w) == {[i \in DOMAIN w |-> IF i \in up THEN UpperOf(w[i]) ELSE w[i]] :
                   up \in SUBSET DOMAIN w}

RECURSIVE Pads(_)
Pads(n) == IF n = 0 THEN {<<>>}
           ELSE Pads(n - 1) \cup {Append(p, c) : p \in Pads(n - 1), c \in Whitespace}

Damaged(b) == {b} \cup {<<x>> \o b : x \in InvalidBytes} \cup {b \o <<x>> : x \in InvalidBytes}

Texts(w) == {l \o c \o r : l \in Pads(MaxPad), r \in Pads(MaxPad), c \in Casings(w)}
StrInputs(w)   == {PyStr(s) : s \in Texts(w)}
BytesInputs(w) == UNION {{PyBytes(b) : b \in Damaged(py_encode(s))} : s \in Texts(w)}

BoolIdle ==
    /\ barg = PyStr(<<>>)
    /\ bword = <<>>
    /\ bres = NotCalled

InitBool ==
    /\ bword \in Words
    /\ \/ barg \in StrInputs(bword)
       \/ barg \in BytesInputs(bword)
    /\ bres = NotCalled
    /\ TypesIdle
    /\ MainIdle

Coerce ==
    /\ bres = NotCalled
    /\ bres' = parse_bool_arg(barg)
    /\ UNCHANGED <<barg, bword>>
    /\ UNCHANGED <<tvars, mvars>>

NextBool == Coerce

SpecBool == InitBool /\ [][NextBool]_vars

\* the text of an input, when it has one
Decodable(arg) == arg.t = "str" \/ CanDecode(arg.v)
TextOf(arg)    == IF arg.t = "bytes" THEN py_decode(arg.v) ELSE arg.v

ClaimTrue ==
    {<<"1">>, <<"o", "n">>, <<"t">>, <<"t", "r", "u", "e">>, <<"y">>, <<"y", "e", "s">>}
ClaimFalse ==
    {<<"0">>, <<"o", "f", "f">>, <<"f">>, <<"f", "a", "l", "s", "e">>, <<"n">>, <<"n", "o">>}

BoolOutcome(word, text) ==
    IF word \in ClaimTrue THEN Return(TRUE)
    ELSE IF word \in ClaimFalse THEN Return(FALSE)
    ELSE Raise("ValueError", text)

\* C5 as stated: on every text or byte input parse_bool_arg returns true
\* for the true words, false for the false words, whatever their case and
\* padding, and fails with the invalid-boolean error carrying the input on
\* everything else.
C5_AnyInput ==
    bres # NotCalled =>
        /\ bres.kind = "return" => bres.value = (bword \in ClaimTrue)
        /\ bres.kind = "return" <=> bword \in ClaimTrue \cup ClaimFalse
        /\ bres.kind = "raise" => bres.exc = "ValueError"

\* C5 amended: the same for every str and every bytes input that decodes;
\* bytes that do not decode fail in the decoder and still return no boolean.
C5_DecodableInput ==
    bres # NotCalled =>
        IF Decodable(barg)
        THEN bres = BoolOutcome(bword, TextOf(barg))
        ELSE bres.kind = "raise" /\ bres.exc = "UnicodeDecodeError"

\* witness: an upper-case, padded, byte-encoded true word coerced to true
C5_Witness ==
    /\ bres = Return(TRUE)
    /\ barg.t = "bytes"
    /\ bword = <<"t", "r", "u", "e">>
    /\ TextOf(barg) # bword
    /\ Len(barg.v) > Len(bword)

(***************************************************************************)
(* Type resolver harness: both functions applied once to one annotation.   *)
(***************************************************************************)
InitTypes ==
    /\ ann \in TypeExprs(MaxDepth)
    /\ tpc = {}
    /\ base = Unset
    /\ islist = FALSE
    /\ calls = <<>>
    /\ BoolIdle
    /\ MainIdle

ResolveBase ==
    /\ "base" \notin tpc
    /\ base' = get_base_type(ann)
    /\ tpc' = tpc \cup {"base"}
    /\ UNCHANGED <<ann, islist, calls>>
    /\ UNCHANGED <<bvars, mvars>>

CheckList ==
    /\ "list" \notin tpc
    /\ islist' = contains_list_type(ann)
    /\ calls' = contains_list_calls(ann, <<>>).calls
    /\ tpc' = tpc \cup {"list"}
    /\ UNCHANGED <<ann, base>>
    /\ UNCHANGED <<bvars, mvars>>

NextTypes == ResolveBase \/ CheckList

SpecTypes == InitTypes /\ [][NextTypes]_vars

(***************************************************************************)
(* The run of the script                                                   *)
(***************************************************************************)
Init ==
    /\ schema \in {s \in Schemas(MaxFields) : DistinctNames(s)}
    /\ params \in ParamLists
    /\ pc = IF schema = <<>> THEN "params" ELSE "fields"
    /\ idx = 1
    /\ parser = <<>>
    /\ argv = <<>>
    /\ args = NoMap
    /\ overrides = NoMap
    /\ uvicorn_args = NoMap
    /\ partitioned = NoMap
    /\ env_host = VNone
    /\ env_port = VNone
    /\ validated = TRUE
    /\ started = 0
    /\ error = "none"
    /\ TypesIdle
    /\ BoolIdle

\* one iteration of the loop over Settings.model_fields
CompileField ==
    /\ pc = "fields"
    /\ LET a == SettingsArgument(schema[idx]) IN
       IF Conflicts(parser, a)
       THEN /\ pc' = "failed"
            /\ error' = "ArgumentError"
            /\ UNCHANGED <<parser, idx>>
       ELSE /\ parser' = Append(parser, a)
            /\ pc' = IF idx = Len(schema) THEN "params" ELSE "fields"
            /\ idx' = IF idx = Len(schema) THEN 1 ELSE idx + 1
            /\ error' = error
    /\ UNCHANGED <<schema, params, argv, args, overrides, uvicorn_args, partitioned,
                   env_host, env_port, validated, started>>
    /\ UNCHANGED <<tvars, bvars>>

\* one iteration of the loop over the parameters of uvicorn.run
CompileParam ==
    /\ pc = "params"
    /\ LET a == UvicornArgument(params[idx]) IN
       IF params[idx].name # <<"a", "p", "p">> /\ Conflicts(parser, a)
       THEN /\ pc' = "failed"
            /\ error' = "ArgumentError"
            /\ UNCHANGED <<parser, idx>>
       ELSE /\ parser' = IF params[idx].name = <<"a", "p", "p">> THEN parser ELSE Append(parser, a)
            /\ pc' = IF idx = Len(params) THEN "parse" ELSE "params"
            /\ idx' = idx + 1
            /\ error' = error
    /\ UNCHANGED <<schema, params, argv, args, overrides, uvicorn_args, partitioned,
                   env_host, env_port, validated, started>>
    /\ UNCHANGED <<tvars, bvars>>

\* args = parser.parse_args()
ParseArgs ==
    /\ pc = "parse"
    /\ \E a \in Argvs(parser, MaxArgs) :
        /\ argv' = a
        /\ LET r == parse_args(parser, a) IN
           IF r.ok
           THEN args' = r.ns /\ pc' = "construct" /\ error' = error
           ELSE args' = args /\ pc' = "failed" /\ error' = "SystemExit"
    /\ UNCHANGED <<schema, params, idx, parser, overrides, uvicorn_args, partitioned,
                   env_host, env_port, validated, started>>
    /\ UNCHANGED <<tvars, bvars>>

\* settings = Settings(**overrides); app = create_app(settings=settings)
\* Settings validates what it is given and may reject it.
Construct ==
    /\ pc = "construct"
    /\ overrides' = SettingsKwargs(args)
    /\ \E valid \in BOOLEAN :
        /\ validated' = valid
        /\ IF valid THEN pc' = "partition" /\ error' = error
           ELSE pc' = "failed" /\ error' = "ValidationError"
    /\ UNCHANGED <<schema, params, idx, parser, argv, args, uvicorn_args, partitioned,
                   env_host, env_port, started>>
    /\ UNCHANGED <<tvars, bvars>>

\* uvicorn_args = {...}
Partition ==
    /\ pc = "partition"
    /\ uvicorn_args' = UvicornArgs(args)
    /\ partitioned' = UvicornArgs(args)
    /\ pc' = "merge"
    /\ UNCHANGED <<schema, params, idx, parser, argv, args, overrides,
                   env_host, env_port, validated, started, error>>
    /\ UNCHANGED <<tvars, bvars>>

\* uvicorn_args['host'] = ...; uvicorn_args['port'] = int(...)
Merge ==
    /\ pc = "merge"
    /\ \E h \in HostEnv, p \in PortEnv :
        /\ env_host' = h
        /\ env_port' = p
        /\ LET withHost == Put(uvicorn_args, HostKey, merged_host(h, uvicorn_args))
               port     == merged_port(p, withHost)
           IN  IF port.ok
               THEN /\ uvicorn_args' = Put(withHost, PortKey, port.val)
                    /\ pc' = "run"
                    /\ error' = error
               ELSE /\ uvicorn_args' = withHost
                    /\ pc' = "failed"
                    /\ error' = "ValueError"
    /\ UNCHANGED <<schema, params, idx, parser, argv, args, overrides, partitioned,
                   validated, started>>
    /\ UNCHANGED <<tvars, bvars>>

\* uvicorn.run(app, **uvicorn_args)
Run ==
    /\ pc = "run"
    /\ started' = started + 1
    /\ pc' = "done"
    /\ UNCHANGED <<schema, params, idx, parser, argv, args, overrides, uvicorn_args,
                   partitioned, env_host, env_port, validated, error>>
    /\ UNCHANGED <<tvars, bvars>>

\* The compilation alone, over schemas whose fields carry every annotation
\* of one wrapper and some deeper ones, or none at all.
CompiledAnnotations ==
    TypeExprs(1) \cup {None, UnionOf(<<ListOf(bool), NoneType>>),
                       ListOf(UnionOf(<<LiteralOf(<<Val("str")>>), NoneType>>)),
                       UnionOf(<<NoneType, ListOf(LiteralOf(<<Val("bool")>>))>>)}

FieldName(i) == <<"f">> \o nat_text(i)

RECURSIVE AnnotatedSchemas(_)
AnnotatedSchemas(n) ==
    IF n = 0 THEN {<<>>}
    ELSE LET A == AnnotatedSchemas(n - 1) IN
         A \cup {Append(s, FieldInfo(FieldName(Len(s) + 1), a, VNone, VNone)) :
                    s \in {x \in A : Len(x) = n - 1}, a \in CompiledAnnotations}

InitCompile ==
    /\ schema \in AnnotatedSchemas(MaxFields)
    /\ params \in ParamLists
    /\ pc = IF schema = <<>> THEN "params" ELSE "fields"
    /\ idx = 1
    /\ parser = <<>>
    /\ argv = <<>>
    /\ args = NoMap
    /\ overrides = NoMap
    /\ uvicorn_args = NoMap
    /\ partitioned = NoMap
    /\ env_host = VNone
    /\ env_port = VNone
    /\ validated = TRUE
    /\ started = 0
    /\ error = "none"
    /\ TypesIdle
    /\ BoolIdle

NextCompile == CompileField \/ CompileParam

SpecCompile == InitCompile /\ [][NextCompile]_vars

Next == CompileField \/ CompileParam \/ ParseArgs \/ Construct \/ Partition \/ Merge \/ Run

Spec == Init /\ [][Next]_vars

(***************************************************************************)
(* Properties of the run                                                   *)
(***************************************************************************)
Supplied(flag) == \E i \in DOMAIN argv : argv[i].flag = flag
FieldNames     == {schema[i].name : i \in DOMAIN schema}
IsPartitioned  == pc \in {"merge", "run", "done"}

\* C1: every parsed key with a value lands in exactly one output mapping,
\* chosen by the prefix alone: prefixed keys in the launch values under the
\* stripped name, the others in the configuration values under their own
\* name; no output key comes from outside the parsed set.
C1_PartitionByPrefix ==
    IsPartitioned =>
        /\ \A k \in DOMAIN args :
               args[k] # VNone =>
                   IF StartsWith(k, UvicornPrefix)
                   THEN /\ \E j \in DOMAIN partitioned :
                               UvicornPrefix \o j = k /\ partitioned[j] = args[k]
                        /\ k \notin DOMAIN overrides
                   ELSE /\ k \in DOMAIN overrides /\ overrides[k] = args[k]
                        /\ \A j \in DOMAIN partitioned : UvicornPrefix \o j # k
        /\ DOMAIN overrides \subseteq DOMAIN args
        /\ \A j \in DOMAIN partitioned : UvicornPrefix \o j \in DOMAIN args

\* witness: a configuration value and a launch value, both supplied, next
\* to a key that was dropped as unset
C1_Witness ==
    /\ pc = "merge"
    /\ \E k \in DOMAIN overrides : Supplied(Dashes \o k)
    /\ \E j \in DOMAIN partitioned : Supplied(UvicornFlag \o j)
    /\ \E k \in DOMAIN args : args[k] = VNone

\* C2: the keyword arguments of Settings hold a field only if its flag was
\* on the command line; with no flags they are empty.
C2_OnlySuppliedFields ==
    /\ \A k \in DOMAIN overrides : k \in FieldNames /\ Supplied(Dashes \o k)
    /\ (pc \notin {"fields", "params", "parse"} /\ argv = <<>>) => overrides = NoMap

\* witness: a two-field schema with a default-carrying field left out and
\* the other field supplied
C2_Witness ==
    /\ pc = "partition"
    /\ Len(schema) = 2
    /\ Cardinality(DOMAIN overrides) = 1
    /\ \E i \in DOMAIN schema :
           schema[i].default # VNone /\ schema[i].name \notin DOMAIN overrides

\* C3 as stated: the partitioned launch values hold a launch parameter only
\* if its namespaced flag was on the command line.
C3_OnlySuppliedLaunch ==
    IsPartitioned => \A j \in DOMAIN partitioned : Supplied(UvicornFlag \o j)

HasDefault(j) ==
    \E i \in DOMAIN params : params[i].name = j /\ params[i].default \notin {VNone, VEmpty}

\* C3 amended: the partitioned launch values hold a key only if a flag
\* stored under that key was on the command line or the launch parameter of
\* that name declares a default other than None.
C3_SuppliedOrDefault ==
    IsPartitioned =>
        \A j \in DOMAIN partitioned :
            \/ Supplied(UvicornFlag \o j)
            \/ Supplied(Dashes \o UvicornPrefix \o j)
            \/ HasDefault(j)

\* witness: no flag at all, and the declared defaults of host and port are
\* in the launch values
C3_Witness ==
    /\ pc = "merge"
    /\ argv = <<>>
    /\ HostKey \in DOMAIN partitioned /\ partitioned[HostKey] = VStr(<<"1", "2", "7", ".", "0", ".", "0", ".", "1">>)
    /\ PortKey \in DOMAIN partitioned /\ partitioned[PortKey] = VInt(8000)

IntTexts == (<<"9", "0", "9", "0">> :> 9090) @@ (<<"1">> :> 1)

FirstMatch(env, key, default) ==
    IF env # VNone THEN env
    ELSE IF key \in DOMAIN partitioned THEN partitioned[key] ELSE default

\* C4: host and port are taken from the environment variable if set, else
\* from the partitioned value, else from the fixed default, and the port
\* handed on is an integer.
C4_HostPortPrecedence ==
    pc \in {"run", "done"} =>
        LET src == FirstMatch(env_port, PortKey, VInt(8000)) IN
        /\ uvicorn_args[HostKey] = FirstMatch(env_host, HostKey, VStr(<<"1", "2", "7", ".", "0", ".", "0", ".", "1">>))
        /\ uvicorn_args[PortKey].t = "int"
        /\ src.t = "int" => uvicorn_args[PortKey] = src
        /\ src.t = "str" => src.s \in DOMAIN IntTexts
                            /\ uvicorn_args[PortKey] = VInt(IntTexts[src.s])

\* witness: PORT=9090 in the environment, no port flag, a declared default
\* of 8000 in the partitioned values
C4_Witness ==
    /\ pc = "done"
    /\ env_port = VStr(<<"9", "0", "9", "0">>)
    /\ ~Supplied(UvicornFlag \o PortKey)
    /\ PortKey \in DOMAIN partitioned /\ partitioned[PortKey] = VInt(8000)
    /\ uvicorn_args[PortKey] = VInt(9090)

\* C6: no configuration flag and launch flag share a key of the parsed set,
\* and a value supplied for a configuration field is in the configuration
\* values and not in the launch values.
C6_NoCollision ==
    /\ \A i, j \in DOMAIN parser : i # j => parser[i].dest # parser[j].dest
    /\ IsPartitioned =>
           \A k \in FieldNames :
               Supplied(Dashes \o k) =>
                   /\ k \in DOMAIN overrides
                   /\ \A j \in DOMAIN partitioned : UvicornPrefix \o j # k

\* what makes a flag group unparseable, told from the declarations
FlagType(flag) ==
    IF \E i \in DOMAIN schema : Dashes \o schema[i].name = flag
    THEN LET f == schema[CHOOSE i \in DOMAIN schema : Dashes \o schema[i].name = flag] IN
         [known |-> TRUE,
          many  |-> f.name = <<"t", "a", "g", "s">>,
          strict |-> f.name \in {<<"f", "l", "a", "g", "s">>, <<"u", "v", "i", "c", "o", "r", "n", "_", "p", "o", "r", "t">>}]
    ELSE IF \E i \in DOMAIN params :
                params[i].name # <<"a", "p", "p">> /\ UvicornFlag \o params[i].name = flag
    THEN LET p == params[CHOOSE i \in DOMAIN params : UvicornFlag \o params[i].name = flag] IN
         [known |-> TRUE, many |-> FALSE, strict |-> p.annotation = int]
    ELSE [known |-> FALSE, many |-> FALSE, strict |-> FALSE]

BadGroup(g) ==
    LET ft == FlagType(g.flag) IN
    \/ ~ft.known
    \/ ~ft.many /\ Len(g.toks) # 1
    \/ ft.strict /\ \E i \in DOMAIN g.toks : g.toks[i] = <<"x">>

ParsingFails == \E i \in DOMAIN argv : BadGroup(argv[i])
PortFails    == FirstMatch(env_port, PortKey, VInt(8000)) = VStr(<<"x">>)

\* C9: uvicorn.run is called at most once, as the last step, and not at
\* all in a run in which parsing, boolean coercion, the construction of
\* Settings or the integer coercion of the port failed.
C9_StartOnlyAfterSuccess ==
    /\ [](/\ started <= 1
          /\ started = 1 => pc = "done"
          /\ pc = "failed" => started = 0
          /\ started = 1 => validated /\ ~ParsingFails /\ ~PortFails)
    /\ [][started' # started =>
             /\ started' = started + 1
             /\ pc = "run" /\ pc' = "done" /\ error = "none"]_vars

\* witness: the server started after a run that read flags and PORT
C9_Witness ==
    /\ started = 1
    /\ pc = "done"
    /\ Len(argv) = 2
    /\ env_port # VNone

NumCompiled == IF pc = "fields" THEN idx - 1 ELSE Len(schema)
NumParams   ==
    IF pc = "fields" THEN 0
    ELSE Cardinality({i \in DOMAIN params :
                         params[i].name # <<"a", "p", "p">> /\ (pc = "params" => i < idx)})

\* C10: one argument per field, in declaration order, with one parsing
\* mode: the boolean coercer and one token when the base type is bool, even
\* for a sequence; otherwise any number of tokens for a sequence and one
\* token for the rest; text and one token when nothing is declared.
C10_OneModePerField ==
    ~(pc = "failed" /\ error = "ArgumentError") =>
        /\ Len(parser) = NumCompiled + NumParams
        /\ \A i \in 1 .. NumCompiled :
               LET f == schema[i]
                   a == parser[i]
                   b == IF f.annotation = None THEN str ELSE get_base_type(f.annotation)
               IN  /\ a.option = Dashes \o f.name
                   /\ a.dest = f.name
                   /\ IF b = bool
                      THEN a.type = ParseBoolFn /\ a.nargs = "None"
                      ELSE /\ a.type = b
                           /\ a.nargs = IF contains_list_type(f.annotation) THEN "*" ELSE "None"
                   /\ f.annotation = None => a.type = str /\ a.nargs = "None"

\* witness: a list of booleans compiled to the one-token boolean mode after
\* a field without annotation compiled to text
C10_Witness ==
    /\ pc = "parse"
    /\ Len(schema) = 2
    /\ schema[1].annotation = None
    /\ schema[2].annotation = ListOf(bool)
    /\ parser[2].type = ParseBoolFn /\ parser[2].nargs = "None"

(***************************************************************************)
(* Positions inside an annotation.                                         *)
(***************************************************************************)
RECURSIVE Paths(_)
Paths(t) ==
    {<<>>} \cup UNION {{<<i>> \o p : p \in Paths(t.args[i])} : i \in DOMAIN t.args}

RECURSIVE NodeAt(_, _)
NodeAt(t, p) == IF p = <<>> THEN t ELSE NodeAt(t.args[p[1]], Tail(p))

ProperPrefixes(p) == {SubSeq(p, 1, n) : n \in 0 .. Len(p) - 1}

\* some sequence wrapper is reached from the root through unions and
\* literals only
SequenceThroughUnions(t) ==
    \E p \in Paths(t) :
        /\ NodeAt(t, p).kind = "list"
        /\ \A q \in ProperPrefixes(p) : NodeAt(t, q).kind \in {"union", "literal"}

\* C8: contains_list_type is true exactly for a sequence wrapper or a
\* union/literal reaching one through unions/literals only, and it is never
\* called on anything inside a sequence wrapper.
C8_IsSequence ==
    "list" \in tpc =>
        /\ islist = SequenceThroughUnions(ann)
        /\ \A i \in DOMAIN calls :
               \A q \in ProperPrefixes(calls[i]) : NodeAt(ann, q).kind # "list"

\* witness: a sequence of sequences answered true by the outer wrapper alone
C8_Witness ==
    /\ "list" \in tpc
    /\ ann.kind = "list" /\ ann.args[1].kind = "list"
    /\ islist /\ calls = <<<<>>>>

\* what the resolution rules prescribe, with the textual scalar type for a
\* union that has only absent alternatives
RECURSIVE ResolveRule(_)
ResolveRule(t) ==
    CASE t.kind = "literal" -> TypeOf(t.args[1])
      [] t.kind = "union" ->
            IF \E i \in DOMAIN t.args : t.args[i] # NoneType
            THEN ResolveRule(t.args[CHOOSE i \in DOMAIN t.args :
                                  /\ t.args[i] # NoneType
                                  /\ \A j \in 1 .. i - 1 : t.args[j] = NoneType])
            ELSE str
      [] t.kind = "list" -> ResolveRule(t.args[1])
      [] OTHER -> t

\* C7: get_base_type agrees with the resolution rules on every annotation,
\* returning the textual scalar type for an all-absent union.
C7_ResolveTotal ==
    "base" \in tpc => base = ResolveRule(ann)

====
